---------------------------- MODULE Spec2Model ----------------------------
(***************************************************************************)
(* Duplicate detection and removal of the file-organization skill          *)
(* (src/skills/file-organization/scripts/file_organizer.py):               *)
(* FileOrganizer.find_duplicates, _hash_file and remove_duplicates.        *)
(*                                                                         *)
(* A file system is a function from path strings to entries.  A scan is    *)
(* the size-listing pass followed by the hashing pass; a resolve is one    *)
(* call of remove_duplicates.                                              *)
(***************************************************************************)
EXTENDS Integers, Sequences, FiniteSets, TLC

(***************************************************************************)
(* Bounds of the model.                                                    *)
(***************************************************************************)
\* number of paths under the scanned root
NumFiles == 3
\* most os.remove calls that the environment lets fail with PermissionError
MaxDenied == 1
\* most unreadable files and most symbolic links in an initial tree
MaxUnreadable == 1
MaxLinks == 1
\* a groups mapping handed directly to remove_duplicates: most groups, and
\* most path entries over all its groups
MaxGroups == 2
MaxEntries == 4
\* most faults of the environment during one scan
MaxFaults == 1
\* files of the tree that is rewritten during a scan
NumRaceFiles == 4
\* most files another process rewrites during one scan
MaxWrites == 2
\* entries of the tree of directories
NumNodes == 5
\* entries of the source directory that is organized
NumSources == 4

\* default of the min_size parameter of find_duplicates
DefaultMinSize == 1024

(***************************************************************************)
(* Paths, in the order in which directory.rglob('*') enumerates them.      *)
(* Their string lengths are not monotonic and have ties.                   *)
(***************************************************************************)
AllPaths == <<"/r/bb", "/r/a", "/r/c", "/r/d/e", "/r/dd", "/r/d/f", "/r/g">>
PathSeq == [i \in 1..NumFiles |-> AllPaths[i]]
Paths == {AllPaths[i] : i \in 1..NumFiles}

Range(s) == {s[i] : i \in 1..Len(s)}

(***************************************************************************)
(* File contents: a byte string, given by the byte it repeats and its      *)
(* length.                                                                 *)
(***************************************************************************)
Contents == { [data |-> "x", size |-> 2000],
              [data |-> "y", size |-> 2000],
              [data |-> "x", size |-> 500] }
MinSizes == {0, DefaultMinSize, 2000}

Absent == [kind |-> "absent"]
RegularFile(c, r) == [kind |-> "file", content |-> c, readable |-> r]
Symlink(t) == [kind |-> "link", target |-> t]

Exists(fs, p) == fs[p].kind # "absent"

\* the entry a path names once symbolic links are followed (os.stat, open)
RECURSIVE Follow(_, _, _)
Follow(fs, p, n) ==
    IF fs[p].kind = "link"
    THEN IF n = 0 THEN Absent ELSE Follow(fs, fs[p].target, n - 1)
    ELSE fs[p]
Target(fs, p) == Follow(fs, p, NumFiles)

\* Path.is_file(): true of a regular file and of a symbolic link to one
IsFile(fs, p) == Target(fs, p).kind = "file"

\* file_path.stat().st_size
StatSize(fs, p) == Target(fs, p).content.size

\* directory.rglob('*'): every existing entry under the root
Rglob(fs) == SelectSeq(AllPaths, LAMBDA p : p \in DOMAIN fs /\ Exists(fs, p))

(***************************************************************************)
(* What the environment does to a scan.  root: the scanned directory is a  *)
(* directory ("dir"), does not exist ("missing"), cannot be listed         *)
(* ("unreadable"), or lies under a directory that cannot be searched       *)
(* ("noaccess").  subdir: the subdirectory /r/d is "ok", cannot be listed  *)
(* ("unlistable", mode ---) or can be listed but not searched              *)
(* ("unsearchable", mode r--), so that stat() of a path in it ends with    *)
(* EACCES.  flaky: paths whose stat() at line 56 ends with an OSError      *)
(* after is_file() succeeded.                                              *)
(***************************************************************************)
NoFaults == [root |-> "dir", subdir |-> "ok", flaky |-> {}]
InSubdir(p) == p \in {"/r/d/e", "/r/d/f"}

PermissionError == "PermissionError"

\* rglob('*') under the faults: pathlib tests is_dir() of the root, which
\* raises under "noaccess" and is false of a missing root, and it swallows
\* the PermissionError of a directory it cannot list
RglobRaises(env) == env.root = "noaccess"
RglobFrom(env, fs) ==
    IF env.root \in {"missing", "unreadable", "noaccess"} THEN <<>>
    ELSE SelectSeq(Rglob(fs), LAMBDA p : ~(env.subdir = "unlistable" /\ InSubdir(p)))

\* file_path.is_file() raises: pathlib re-raises every OSError of stat()
\* other than ENOENT, ENOTDIR, EBADF and ELOOP
IsFileRaises(env, p) == env.subdir = "unsearchable" /\ InSubdir(p)

\* file_path.stat() at line 56 raises, inside the try
StatRaises(env, p) == p \in env.flaky

\* variant: the digest covers the first block of the file only
Md5OfFirstBlock(c) == <<"md5", c.data>>

\* hashlib.md5 over the whole content: a digest, taken collision-free
Md5(c) == <<"md5", c.data, c.size>>

\* variant: the digest is taken of the file's length, not of its bytes
HashFileOfSize(fs, p) ==
    LET t == Target(fs, p)
    IN  IF t.kind = "file" /\ t.readable THEN <<"md5", t.content.size>> ELSE "OSError"

\* _hash_file: the digest, or OSError when the file cannot be opened
OSError == "OSError"
HashFile(fs, p) ==
    LET t == Target(fs, p)
    IN  IF t.kind = "file" /\ t.readable THEN Md5(t.content) ELSE OSError

(***************************************************************************)
(* defaultdict(list) as an insertion-ordered sequence of entries.          *)
(***************************************************************************)
HasKey(m, k) == \E i \in 1..Len(m) : m[i].key = k

\* variant: the path is appended twice
DictAppendTwice(m, k, v) ==
    IF HasKey(m, k)
    THEN [i \in 1..Len(m) |->
            IF m[i].key = k THEN [key |-> k, paths |-> m[i].paths \o <<v, v>>]
            ELSE m[i]]
    ELSE Append(m, [key |-> k, paths |-> <<v, v>>])

\* size_map[size].append(file_path), hash_map[file_hash].append(str(file_path))
DictAppend(m, k, v) ==
    IF HasKey(m, k)
    THEN [i \in 1..Len(m) |->
            IF m[i].key = k THEN [key |-> k, paths |-> Append(m[i].paths, v)]
            ELSE m[i]]
    ELSE Append(m, [key |-> k, paths |-> <<v>>])

\* variant: the size filter lets every non-empty file pass
SizeOkNonEmpty(size, min) == size > 0

\* the size filter of the first pass
SizeOk(size, min) == size >= min

\* how the first pass ends: with size_map, or with the exception that left it
Listed(sm) == [raised |-> "none", size_map |-> sm]
ListRaised(what, sm) == [raised |-> what, size_map |-> sm]

\* first pass of find_duplicates: size_map, or the PermissionError that
\* is_file() raised outside the try
RECURSIVE ListPass(_, _, _, _, _, _)
ListPass(env, fs, min, entries, i, sm) ==
    IF i > Len(entries) THEN Listed(sm)
    ELSE LET p == entries[i]
         IN  IF IsFileRaises(env, p) THEN ListRaised(PermissionError, sm)
             ELSE IF IsFile(fs, p) /\ ~StatRaises(env, p) /\ SizeOk(StatSize(fs, p), min)
             THEN ListPass(env, fs, min, entries, i + 1, DictAppend(sm, StatSize(fs, p), p))
             ELSE ListPass(env, fs, min, entries, i + 1, sm)
SizeMap(fs, min) == ListPass(NoFaults, fs, min, Rglob(fs), 1, <<>>).size_map

\* variant: size_map lives on across calls
NewDictKept(old) == old

\* size_map = defaultdict(list): each call starts from an empty mapping
NewDict(old) == <<>>

\* the first pass of a call that finds the mapping old from an earlier call
SizeMapFrom(env, old, fs, min) ==
    IF RglobRaises(env) THEN ListRaised(PermissionError, NewDict(old))
    ELSE ListPass(env, fs, min, RglobFrom(env, fs), 1, NewDict(old))

\* variant: the files of a bucket are hashed from the last to the first
RECURSIVE HashBucketBackwards(_, _, _, _)
HashBucketBackwards(fs, files, j, hm) ==
    IF j > Len(files) THEN hm
    ELSE LET file == files[Len(files) + 1 - j]
             h == HashFile(fs, file)
         IN  IF h = "OSError"
             THEN HashBucketBackwards(fs, files, j + 1, hm)
             ELSE HashBucketBackwards(fs, files, j + 1, DictAppend(hm, h, file))

\* variant: every size bucket has a hash_map of its own
RECURSIVE HashBucketOwnMap(_, _, _, _)
HashBucketOwnMap(fs, files, j, hm) ==
    IF j > Len(files) THEN hm
    ELSE LET h == HashFile(fs, files[j])
         IN  IF h = "OSError"
             THEN HashBucketOwnMap(fs, files, j + 1, hm)
             ELSE HashBucketOwnMap(fs, files, j + 1, DictAppend(hm, <<h, files>>, files[j]))

\* the inner loop of the second pass over one size bucket
RECURSIVE HashBucket(_, _, _, _)
HashBucket(fs, files, j, hm) ==
    IF j > Len(files) THEN hm
    ELSE LET h == HashFile(fs, files[j])
         IN  IF h = OSError
             THEN HashBucket(fs, files, j + 1, hm)
             ELSE HashBucket(fs, files, j + 1, DictAppend(hm, h, files[j]))

\* variant: every bucket is hashed
BucketIsHashedNonEmpty(files) == Len(files) > 0

\* the size test that decides whether a bucket is hashed
BucketIsHashed(files) == Len(files) > 1

\* the calls of _hash_file at line 69, in order: one per file of each
\* bucket that is hashed
RECURSIVE HashCalls(_, _)
HashCalls(sm, i) ==
    IF i > Len(sm) THEN <<>>
    ELSE IF BucketIsHashed(sm[i].paths)
         THEN sm[i].paths \o HashCalls(sm, i + 1)
         ELSE HashCalls(sm, i + 1)

\* second pass of find_duplicates: hash_map
RECURSIVE HashPass(_, _, _, _)
HashPass(fs, sm, i, hm) ==
    IF i > Len(sm) THEN hm
    ELSE IF BucketIsHashed(sm[i].paths)
         THEN HashPass(fs, sm, i + 1, HashBucket(fs, sm[i].paths, 1, hm))
         ELSE HashPass(fs, sm, i + 1, hm)
HashMap(fs, sm) == HashPass(fs, sm, 1, <<>>)

\* variant: the final comprehension keeps every group that has a member
IsDuplicateGroupNonEmpty(paths) == Len(paths) > 0

\* the test of the final comprehension
IsDuplicateGroup(paths) == Len(paths) > 1

\* duplicates = {h: paths for h, paths in hash_map.items() if len(paths) > 1}
OnlyDuplicates(hm) == SelectSeq(hm, LAMBDA e : IsDuplicateGroup(e.paths))


(***************************************************************************)
(* remove_duplicates.                                                      *)
(***************************************************************************)
KeepArgs == {"first", "last", "shortest_path", "longest_path", "newest"}

\* min(paths, key=len) and max(paths, key=len): the first extremal element
\* variant: among paths of the least length the last one is taken
LastShortest(paths) ==
    paths[CHOOSE i \in 1..Len(paths) :
            /\ \A j \in 1..Len(paths) : Len(paths[i]) <= Len(paths[j])
            /\ \A j \in (i + 1)..Len(paths) : Len(paths[j]) > Len(paths[i])]

\* min(paths, key=len) and max(paths, key=len): the first extremal element
FirstShortest(paths) ==
    paths[CHOOSE i \in 1..Len(paths) :
            /\ \A j \in 1..Len(paths) : Len(paths[i]) <= Len(paths[j])
            /\ \A j \in 1..(i - 1) : Len(paths[j]) > Len(paths[i])]
FirstLongest(paths) ==
    paths[CHOOSE i \in 1..Len(paths) :
            /\ \A j \in 1..Len(paths) : Len(paths[i]) >= Len(paths[j])
            /\ \A j \in 1..(i - 1) : Len(paths[j]) < Len(paths[i])]

\* variant: the chain has no else branch and falls back to the first path
ToKeepDefaultsFirst(paths, k) ==
    CASE k = "last" -> paths[Len(paths)]
      [] k = "shortest_path" -> FirstShortest(paths)
      [] k = "longest_path" -> FirstLongest(paths)
      [] OTHER -> paths[1]

\* the if/elif chain that decides which path to keep; ValueError otherwise
ValueError == "ValueError"
ToKeep(paths, k) ==
    CASE k = "first" -> paths[1]
      [] k = "last" -> paths[Len(paths)]
      [] k = "shortest_path" -> FirstShortest(paths)
      [] k = "longest_path" -> FirstLongest(paths)
      [] OTHER -> ValueError

\* variants: every member is taken for redundant; the test is inverted
IsRedundantAlways(path, to_keep) == TRUE
IsRedundantInverted(path, to_keep) == path = to_keep
IsRedundantByLength(path, to_keep) == Len(path) # Len(to_keep)

\* the test that guards the deletion of a member
IsRedundant(path, to_keep) == path # to_keep

\* variant: a file that is not of the size of the model's duplicates is
\* not removed, as if the content were verified again
OsRemoveFailsIfRewritten(f, path, den) ==
    ~Exists(f, path) \/ path \in den \/ StatSize(f, path) # 2000

\* os.remove(path) raises: the path is gone, or the environment denies it
OsRemoveFails(f, path, den) == ~Exists(f, path) \/ path \in den

\* variants: the dry_run argument is ignored; nothing is ever removed
ReallyDeleteAlways(dry) == TRUE
ReallyDeleteNever(dry) == FALSE

\* "if not dry_run": whether the call touches the file system
ReallyDelete(dry) == ~dry

\* variant: break instead of continue
AfterFailureBreak(paths, j) == Len(paths) + 1

\* the index the inner loop goes on with after os.remove raised (continue)
AfterFailure(paths, j) == j + 1

\* the state of one call: the file system, the returned list, the printed
\* failures, and for each group handled one record of what was done
CallState(f) == [fs |-> f, deleted |-> <<>>, printed |-> <<>>,
                 events |-> <<>>, kept |-> <<>>, raised |-> "none"]
Event(i, path, what) == [group |-> i, path |-> path, outcome |-> what]

\* variants of the except branch: the failure is swallowed without a print;
\* the loop body goes on to deleted.append(path) after the print
OnFailureSilent(st, i, path) ==
    [st EXCEPT !.events = Append(@, [group |-> i, path |-> path, outcome |-> "failed"])]
OnFailureAppends(st, i, path) ==
    [st EXCEPT !.printed = Append(@, path),
               !.deleted = Append(@, path),
               !.events = Append(@, [group |-> i, path |-> path, outcome |-> "failed"])]

\* the except branch: the failure is printed, the path is not appended
OnFailure(st, i, path) ==
    [st EXCEPT !.printed = Append(@, path),
               !.events = Append(@, Event(i, path, "failed"))]

\* "for path in paths" of group i
RECURSIVE RemoveRest(_, _, _, _, _, _, _)
RemoveRest(i, paths, j, to_keep, dry, den, st) ==
    IF j > Len(paths) THEN st
    ELSE LET path == paths[j]
         IN  IF IsRedundant(path, to_keep)
             THEN IF ReallyDelete(dry)
                  THEN IF OsRemoveFails(st.fs, path, den)
                       THEN RemoveRest(i, paths, AfterFailure(paths, j), to_keep, dry, den,
                                       OnFailure(st, i, path))
                       ELSE RemoveRest(i, paths, j + 1, to_keep, dry, den,
                              [st EXCEPT !.fs = [@ EXCEPT ![path] = Absent],
                                         !.deleted = Append(@, path),
                                         !.events = Append(@, Event(i, path, "deleted"))])
                  ELSE RemoveRest(i, paths, j + 1, to_keep, dry, den,
                         [st EXCEPT !.deleted = Append(@, path),
                                    !.events = Append(@, Event(i, path, "would_delete"))])
             ELSE RemoveRest(i, paths, j + 1, to_keep, dry, den, st)

\* "for file_hash, paths in duplicates.items()"
RECURSIVE RemoveGroups(_, _, _, _, _, _)
RemoveGroups(groups, i, k, dry, den, st) ==
    IF i > Len(groups) THEN st
    ELSE LET to_keep == ToKeep(groups[i].paths, k)
         IN  IF to_keep = ValueError
             THEN [st EXCEPT !.raised = ValueError]
             ELSE RemoveGroups(groups, i + 1, k, dry, den,
                    RemoveRest(i, groups[i].paths, 1, to_keep, dry, den,
                               [st EXCEPT !.kept = Append(@, to_keep)]))

(***************************************************************************)
(* State.                                                                  *)
(***************************************************************************)
VARIABLES
    fs,          \* the file system under the root
    min_size,    \* find_duplicates: the min_size argument
    pc,          \* "start", "listed", "scanned", "removed", "rescanned", "raised", "dirs_removed"
    size_map,    \* find_duplicates: size_map after the first pass
    duplicates,  \* the mapping find_duplicates returns, remove_duplicates reads
    keep,        \* remove_duplicates: the keep argument
    dry_run,     \* remove_duplicates: the dry_run argument
    denied,      \* paths whose os.remove the environment refuses
    fs_before,   \* the file system when remove_duplicates was called
    deleted,     \* remove_duplicates: the list it returns
    printed,     \* paths of the "Failed to delete" lines it printed
    events,      \* what was done to each redundant path, by group
    kept,        \* to_keep of each group handled
    raised,      \* the exception the call ended with, or "none"
    env,         \* what the environment does to a scan
    rescan,      \* the mapping a second find_duplicates returned, or "none"
    empty_dirs,  \* remove_empty_dirs: the list it returns
    hashed,      \* find_duplicates: the paths _hash_file was called on, in order
    moves,       \* organize_by_type, organize_by_date: the dict they return
    temp_files,  \* remove_temp_files: the list it returns
    access_token,  \* OutlookClient: self.access_token
    request_pc,  \* _make_request: "idle", "answered", "authenticated", "retried",
                 \* "returned", "raised"
    response,    \* _make_request: response.status_code of the last response
    log          \* the requests sent and the _authenticate calls of one _make_request

file_vars == <<fs, min_size, pc, size_map, duplicates, keep, dry_run, denied,
          fs_before, deleted, printed, events, kept, raised, env, rescan, empty_dirs,
          hashed>>
organize_vars == <<moves, temp_files>>
outlook_vars == <<access_token, request_pc, response, log>>
vars == <<file_vars, organize_vars, outlook_vars>>

Entries ==
    {Absent}
    \cup {RegularFile(c, r) : c \in Contents, r \in BOOLEAN}
    \cup {Symlink(t) : t \in Paths}

\* initial trees: a symbolic link points to another path that is no link
Trees ==
    {f \in [Paths -> Entries] :
        /\ Cardinality({p \in Paths : f[p].kind = "file" /\ ~f[p].readable}) <= MaxUnreadable
        /\ Cardinality({p \in Paths : f[p].kind = "link"}) <= MaxLinks
        /\ \A p \in Paths : f[p].kind = "link" =>
              f[p].target # p /\ f[f[p].target].kind # "link"}

NoCall ==
    /\ keep = "none" /\ dry_run = TRUE /\ denied = {}
    /\ deleted = <<>> /\ printed = <<>> /\ events = <<>> /\ kept = <<>>
    /\ raised = "none"
    /\ empty_dirs = <<>>
    /\ hashed = <<>>

\* no organize or cleanup call was made; no OutlookClient exists
NoOrganize == moves = <<>> /\ temp_files = <<>>
NoClient ==
    /\ access_token = "none" /\ request_pc = "idle"
    /\ response = "none" /\ log = <<>>

Init ==
    /\ fs \in Trees
    /\ fs_before = fs
    /\ min_size \in MinSizes
    /\ pc = "start"
    /\ size_map = <<>>
    /\ duplicates = <<>>
    /\ env = NoFaults
    /\ rescan = "none"
    /\ NoCall
    /\ NoOrganize
    /\ NoClient

\* find_duplicates, lines 48-60: the size-listing pass; the call ends here
\* when rglob or is_file() raises
FindDuplicatesList ==
    /\ pc = "start"
    /\ LET r == SizeMapFrom(env, size_map, fs, min_size)
       IN  /\ pc' = IF r.raised = "none" THEN "listed" ELSE "raised"
           /\ raised' = r.raised
           /\ size_map' = r.size_map
    /\ UNCHANGED <<fs, min_size, duplicates, keep, dry_run, denied, fs_before,
                   deleted, printed, events, kept, env, rescan, empty_dirs, hashed,
                   organize_vars, outlook_vars>>

\* find_duplicates, lines 62-77: the hashing pass and the returned mapping
FindDuplicatesHash ==
    /\ pc = "listed"
    /\ duplicates' = OnlyDuplicates(HashMap(fs, size_map))
    /\ hashed' = HashCalls(size_map, 1)
    /\ pc' = "scanned"
    /\ UNCHANGED <<fs, min_size, size_map, keep, dry_run, denied, fs_before,
                   deleted, printed, events, kept, raised, env, rescan, empty_dirs,
                   organize_vars, outlook_vars>>

\* a second find_duplicates(min_size=min_size) on the same FileOrganizer,
\* after the first one or after remove_duplicates
FindDuplicatesAgain ==
    /\ pc \in {"scanned", "removed"}
    /\ LET r == SizeMapFrom(env, size_map, fs, min_size)
       IN  /\ r.raised = "none"
           /\ size_map' = r.size_map
           /\ rescan' = OnlyDuplicates(HashMap(fs, r.size_map))
           /\ hashed' = HashCalls(r.size_map, 1)
    /\ pc' = "rescanned"
    /\ UNCHANGED <<fs, min_size, duplicates, keep, dry_run, denied, fs_before,
                   deleted, printed, events, kept, raised, env, empty_dirs,
                   organize_vars, outlook_vars>>

Members(groups) == UNION {Range(groups[i].paths) : i \in 1..Len(groups)}

\* remove_duplicates(duplicates, keep, dry_run)
RemoveDuplicates ==
    /\ pc = "scanned"
    /\ \E k \in KeepArgs, dry \in BOOLEAN, den \in SUBSET Members(duplicates) :
          /\ Cardinality(den) <= MaxDenied
          /\ dry => den = {}
          /\ LET st == RemoveGroups(duplicates, 1, k, dry, den, CallState(fs))
             IN  /\ keep' = k /\ dry_run' = dry /\ denied' = den
                 /\ fs_before' = fs
                 /\ fs' = st.fs
                 /\ deleted' = st.deleted
                 /\ printed' = st.printed
                 /\ events' = st.events
                 /\ kept' = st.kept
                 /\ raised' = st.raised
    /\ pc' = "removed"
    /\ UNCHANGED <<min_size, size_map, duplicates, env, rescan, empty_dirs, hashed,
                   organize_vars, outlook_vars>>

Next ==
    \/ FindDuplicatesList
    \/ FindDuplicatesHash
    \/ RemoveDuplicates
    \/ FindDuplicatesAgain

\* a tree, a scan of it, and remove_duplicates on what the scan returned
Spec == Init /\ [][Next]_vars

(***************************************************************************)
(* A scan under faults of the environment: a tree with the subdirectory    *)
(* /r/d, at most MaxFaults faults among the root, the subdirectory, the    *)
(* stat() calls and the unreadable files.                                  *)
(***************************************************************************)
ScanPaths == {AllPaths[i] : i \in 2..(NumFiles + 1)}
ScanEnvs ==
    [root : {"dir", "missing", "unreadable", "noaccess"},
     subdir : {"ok", "unlistable", "unsearchable"},
     flaky : SUBSET ScanPaths]
FaultCount(f, e) ==
    Cardinality({p \in DOMAIN f : f[p].kind = "file" /\ ~f[p].readable})
    + Cardinality(e.flaky)
    + (IF e.root = "dir" THEN 0 ELSE 1)
    + (IF e.subdir = "ok" THEN 0 ELSE 1)

InitScan ==
    /\ fs \in [ScanPaths -> {Absent} \cup {RegularFile(c, r) : c \in Contents, r \in BOOLEAN}]
    /\ env \in ScanEnvs
    /\ FaultCount(fs, env) <= MaxFaults
    /\ fs_before = fs
    /\ min_size \in MinSizes
    /\ pc = "start"
    /\ size_map = <<>>
    /\ duplicates = <<>>
    /\ rescan = "none"
    /\ NoCall
    /\ NoOrganize
    /\ NoClient

NextScan == FindDuplicatesList \/ FindDuplicatesHash

SpecScan == InitScan /\ [][NextScan]_vars

(***************************************************************************)
(* A scan of a tree that another process rewrites between the two passes:  *)
(* stat() at line 56 and open() at line 81 read the file system at         *)
(* different times.                                                        *)
(***************************************************************************)
RacePaths == {AllPaths[i] : i \in 1..NumRaceFiles}

InitRace ==
    /\ fs \in [RacePaths -> {Absent} \cup {RegularFile(c, TRUE) : c \in Contents}]
    /\ fs_before = fs
    /\ min_size \in MinSizes
    /\ pc = "start"
    /\ size_map = <<>>
    /\ duplicates = <<>>
    /\ env = NoFaults
    /\ rescan = "none"
    /\ NoCall
    /\ NoOrganize
    /\ NoClient

\* the files that differ from what they were when the call began
Rewritten == {p \in DOMAIN fs : fs[p] # fs_before[p]}

\* between the passes another process rewrites a file
WriteFile ==
    /\ pc = "listed"
    /\ Cardinality(Rewritten) < MaxWrites
    /\ \E p \in DOMAIN fs, c \in Contents :
          /\ fs[p].kind = "file"
          /\ fs[p].content # c
          /\ fs' = [fs EXCEPT ![p] = RegularFile(c, TRUE)]
    /\ UNCHANGED <<min_size, pc, size_map, duplicates, keep, dry_run, denied,
                   fs_before, deleted, printed, events, kept, raised, env, rescan,
                   empty_dirs, hashed,
                   organize_vars, outlook_vars>>

NextRace ==
    \/ FindDuplicatesList
    \/ WriteFile
    \/ FindDuplicatesHash

SpecRace == InitRace /\ [][NextRace]_vars

(***************************************************************************)
(* A scan, then another process rewrites a file, then remove_duplicates on *)
(* the mapping the scan returned.                                          *)
(***************************************************************************)
InitStale ==
    /\ fs \in [Paths -> {Absent} \cup {RegularFile(c, TRUE) : c \in Contents}]
    /\ fs_before = fs
    /\ min_size \in MinSizes
    /\ pc = "start"
    /\ size_map = <<>>
    /\ duplicates = <<>>
    /\ env = NoFaults
    /\ rescan = "none"
    /\ NoCall
    /\ NoOrganize
    /\ NoClient

\* between find_duplicates and remove_duplicates another process rewrites
\* one file, once
WriteFileAfterScan ==
    /\ pc = "scanned"
    /\ fs = fs_before
    /\ \E p \in DOMAIN fs, c \in Contents :
          /\ fs[p].kind = "file"
          /\ fs[p].content # c
          /\ fs' = [fs EXCEPT ![p] = RegularFile(c, TRUE)]
    /\ UNCHANGED <<min_size, pc, size_map, duplicates, keep, dry_run, denied,
                   fs_before, deleted, printed, events, kept, raised, env, rescan,
                   empty_dirs, hashed,
                   organize_vars, outlook_vars>>

NextStale ==
    \/ FindDuplicatesList
    \/ FindDuplicatesHash
    \/ WriteFileAfterScan
    \/ RemoveDuplicates

SpecStale == InitStale /\ [][NextStale]_vars

(***************************************************************************)
(* find_empty_dirs and remove_empty_dirs on a tree of directories.  A node *)
(* is the sequence of names from the root to it.                           *)
(***************************************************************************)
AllNodes == << <<"p">>, <<"q">>, <<"p", "e1">>, <<"p", "e2">>,
               <<"p", "e1", "g">>, <<"q", "f">> >>
NodeSeq == SubSeq(AllNodes, 1, NumNodes)
Nodes == Range(NodeSeq)
Parent(n) == SubSeq(n, 1, Len(n) - 1)
Directory == [kind |-> "dir"]

\* Path.is_dir()
IsDir(f, n) == n = <<>> \/ f[n].kind = "dir"

\* dir_path.iterdir()
Iterdir(f, d) == {n \in DOMAIN f : Parent(n) = d /\ Exists(f, n)}

DirTrees ==
    {f \in [Nodes -> {Absent, Directory, RegularFile([data |-> "x", size |-> 2000], TRUE)}] :
        \A n \in Nodes : Exists(f, n) => IsDir(f, Parent(n))}

\* find_empty_dirs: the directories without an entry, in rglob's order
FindEmptyDirs(f) ==
    SelectSeq(NodeSeq, LAMBDA n : f[n].kind = "dir" /\ Iterdir(f, n) = {})

\* os.rmdir(dir_path) raises: the directory is gone or has an entry, or the
\* environment denies it
RmdirFails(f, d, den) == ~Exists(f, d) \/ Iterdir(f, d) # {} \/ d \in den

\* "for dir_path in empty_dirs" of remove_empty_dirs
RECURSIVE RemoveDirs(_, _, _, _)
RemoveDirs(f, dirs, i, den) ==
    IF i > Len(dirs) THEN f
    ELSE IF RmdirFails(f, dirs[i], den)
         THEN RemoveDirs(f, dirs, i + 1, den)
         ELSE RemoveDirs([f EXCEPT ![dirs[i]] = Absent], dirs, i + 1, den)

InitDirs ==
    /\ fs \in DirTrees
    /\ fs_before = fs
    /\ min_size = DefaultMinSize
    /\ pc = "start"
    /\ size_map = <<>>
    /\ duplicates = <<>>
    /\ env = NoFaults
    /\ rescan = "none"
    /\ NoCall
    /\ NoOrganize
    /\ NoClient

\* remove_empty_dirs(directory, dry_run)
RemoveEmptyDirs ==
    /\ pc = "start"
    /\ \E dry \in BOOLEAN, den \in SUBSET Range(FindEmptyDirs(fs)) :
          /\ Cardinality(den) <= MaxDenied
          /\ dry => den = {}
          /\ dry_run' = dry /\ denied' = den
          /\ empty_dirs' = FindEmptyDirs(fs)
          /\ fs' = IF dry THEN fs ELSE RemoveDirs(fs, FindEmptyDirs(fs), 1, den)
    /\ fs_before' = fs
    /\ pc' = "dirs_removed"
    /\ UNCHANGED <<min_size, size_map, duplicates, keep, deleted, printed, events,
                   kept, raised, env, rescan, hashed,
                   organize_vars, outlook_vars>>

NextDirs == RemoveEmptyDirs

SpecDirs == InitDirs /\ [][NextDirs]_vars

(***************************************************************************)
(* organize_by_type, organize_by_date and remove_temp_files on a source    *)
(* directory; the destination is the default, source_dir / 'organized'.    *)
(* A node is the sequence of names from the source directory to it.        *)
(***************************************************************************)
AllSources == << <<"a.txt">>, <<"s">>, <<"s", "b.jpg">>, <<"~c.tmp">>, <<"s", "a.txt">> >>
SourceSeq == SubSeq(AllSources, 1, NumSources)
Sources == Range(SourceSeq)
Name(n) == n[Len(n)]
Names == {Name(n) : n \in Sources}

\* mtime.strftime('%Y/%m') of the files, as the names of the two folders
DateFolders == {<<"2023", "11">>, <<"2024", "01">>}

\* a regular file with its modification month; content tells files apart
DatedFile(c, d) == [kind |-> "file", content |-> c, readable |-> TRUE, date_folder |-> d]

\* file_path.suffix.lower()
Suffix(name) ==
    CASE name = "a.txt" -> ".txt"
      [] name = "b.jpg" -> ".jpg"
      [] name = "~c.tmp" -> ".tmp"
      [] OTHER -> ""

\* FILE_CATEGORIES, two of its entries
FileCategories ==
    << [category |-> "documents", extensions |-> {".pdf", ".doc", ".txt"}],
       [category |-> "images", extensions |-> {".jpg", ".png", ".gif"}] >>
Categories == {FileCategories[i].category : i \in 1..Len(FileCategories)} \cup {"other"}

\* _get_category: the first category that lists the extension, else 'other'
GetCategory(extension) ==
    IF \E i \in 1..Len(FileCategories) : extension \in FileCategories[i].extensions
    THEN FileCategories[CHOOSE i \in 1..Len(FileCategories) :
                           /\ extension \in FileCategories[i].extensions
                           /\ \A j \in 1..(i - 1) :
                                 extension \notin FileCategories[j].extensions].category
    ELSE "other"

\* dest_dir / category / file_path.name and dest_dir / date_folder / file_path.name
TypeDest(n) == <<"organized", GetCategory(Suffix(Name(n))), Name(n)>>
DateDest(f, n) == <<"organized">> \o f[n].date_folder \o <<Name(n)>>

\* every node a call can read or create
OrganizedNodes ==
    {<<"organized">>}
    \cup {<<"organized", c>> : c \in Categories}
    \cup {<<"organized", c, x>> : c \in Categories, x \in Names}
    \cup {<<"organized", d[1]>> : d \in DateFolders}
    \cup {<<"organized">> \o d : d \in DateFolders}
    \cup {<<"organized">> \o d \o <<x>> : d \in DateFolders, x \in Names}
RECURSIVE SeqOf(_)
SeqOf(S) == IF S = {} THEN <<>> ELSE LET x == CHOOSE y \in S : TRUE IN <<x>> \o SeqOf(S \ {x})
OrgNodeSeq == SourceSeq \o SeqOf(OrganizedNodes)

RECURSIVE Reverse(_)
Reverse(q) == IF q = <<>> THEN <<>> ELSE Append(Reverse(Tail(q)), Head(q))

\* os.listdir / os.scandir of directory d: its entries, in one of two orders
Scandir(f, d, rev) ==
    LET entries == SelectSeq(OrgNodeSeq, LAMBDA n : Parent(n) = d /\ Exists(f, n))
    IN  IF rev THEN Reverse(entries) ELSE entries

\* moves[str(file_path)] = str(dest_path)
DictSet(m, k, v) ==
    IF \E i \in 1..Len(m) : m[i].source = k
    THEN [i \in 1..Len(m) |-> IF m[i].source = k THEN [source |-> k, dest |-> v] ELSE m[i]]
    ELSE Append(m, [source |-> k, dest |-> v])

IsAbove(n, dst) == Len(n) < Len(dst) /\ SubSeq(dst, 1, Len(n)) = n

\* dest_path.parent.mkdir(parents=True, exist_ok=True) and shutil.move:
\* a file already at the destination is replaced
MoveFile(f, src, dst) ==
    [n \in DOMAIN f |->
        IF IsAbove(n, dst) THEN Directory
        ELSE IF src = dst THEN f[n]
        ELSE IF n = dst THEN f[src]
        ELSE IF n = src THEN Absent
        ELSE f[n]]

\* the body of both loops: record the move, and make it unless dry_run
RecordMove(st, src, dst, dry) ==
    [fs |-> IF dry THEN st.fs ELSE MoveFile(st.fs, src, dst),
     moves |-> DictSet(st.moves, src, dst)]

\* organize_by_type: the loop over source_dir.iterdir(), listed beforehand
RECURSIVE TypeLoop(_, _, _, _)
TypeLoop(st, entries, i, dry) ==
    IF i > Len(entries) THEN st
    ELSE IF IsFile(st.fs, entries[i])
         THEN TypeLoop(RecordMove(st, entries[i], TypeDest(entries[i]), dry), entries, i + 1, dry)
         ELSE TypeLoop(st, entries, i + 1, dry)
ByType(f, dry, rev) == TypeLoop([fs |-> f, moves |-> <<>>], Scandir(f, <<>>, rev), 1, dry)

\* organize_by_date: the loop over source_dir.rglob('*').  rglob is lazy:
\* it lists a directory and yields its entries, the loop body runs on each,
\* then it lists the directory again and descends into its subdirectories
RECURSIVE DateLoop(_, _, _, _)
DateLoop(st, entries, i, dry) ==
    IF i > Len(entries) THEN st
    ELSE IF IsFile(st.fs, entries[i])
         THEN DateLoop(RecordMove(st, entries[i], DateDest(st.fs, entries[i]), dry),
                       entries, i + 1, dry)
         ELSE DateLoop(st, entries, i + 1, dry)
RECURSIVE Visit(_, _, _, _)
RECURSIVE VisitAll(_, _, _, _, _)
Visit(st, d, dry, rev) ==
    LET st1 == DateLoop(st, Scandir(st.fs, d, rev), 1, dry)
        dirs == SelectSeq(Scandir(st1.fs, d, rev), LAMBDA n : st1.fs[n].kind = "dir")
    IN  VisitAll(st1, dirs, 1, dry, rev)
VisitAll(st, dirs, i, dry, rev) ==
    IF i > Len(dirs) THEN st
    ELSE VisitAll(Visit(st, dirs[i], dry, rev), dirs, i + 1, dry, rev)
ByDate(f, dry, rev) == Visit([fs |-> f, moves |-> <<>>], <<>>, dry, rev)

\* directory.rglob(pattern) on a tree that does not change meanwhile
RECURSIVE RglobTree(_, _)
RECURSIVE RglobDirs(_, _, _)
RglobTree(f, d) ==
    LET entries == Scandir(f, d, FALSE)
    IN  entries \o RglobDirs(f, SelectSeq(entries, LAMBDA n : f[n].kind = "dir"), 1)
RglobDirs(f, dirs, i) ==
    IF i > Len(dirs) THEN <<>> ELSE RglobTree(f, dirs[i]) \o RglobDirs(f, dirs, i + 1)

\* temp_patterns, three of its entries, and fnmatch on the model's names
TempPatterns == <<"~*", "*.tmp", "Thumbs.db">>
Matches(pattern, name) ==
    CASE pattern = "~*" -> name = "~c.tmp"
      [] pattern = "*.tmp" -> Suffix(name) = ".tmp"
      [] OTHER -> name = pattern

\* find_temp_files: one rglob per pattern, the results one after another
RECURSIVE FindTempFiles(_, _)
FindTempFiles(f, i) ==
    IF i > Len(TempPatterns) THEN <<>>
    ELSE SelectSeq(RglobTree(f, <<>>),
                   LAMBDA n : Matches(TempPatterns[i], Name(n)) /\ IsFile(f, n))
         \o FindTempFiles(f, i + 1)

\* "for file_path in temp_files": os.remove, failures passed over
RECURSIVE RemoveFiles(_, _, _)
RemoveFiles(f, files, i) ==
    IF i > Len(files) THEN f
    ELSE RemoveFiles([f EXCEPT ![files[i]] = Absent], files, i + 1)

SourceTrees ==
    {f \in [Sources -> {Absent, Directory} \cup {DatedFile(c, d) : c \in {"x"}, d \in DateFolders}] :
        \A n \in Sources : Exists(f, n) => IsDir(f, Parent(n))}

InitOrganize ==
    /\ \E t \in SourceTrees :
          fs = [n \in Sources \cup OrganizedNodes |->
                  IF n \in Sources
                  THEN IF t[n].kind = "file" THEN DatedFile(n, t[n].date_folder) ELSE t[n]
                  ELSE Absent]
    /\ fs_before = fs
    /\ min_size = DefaultMinSize
    /\ pc = "start"
    /\ size_map = <<>>
    /\ duplicates = <<>>
    /\ env = NoFaults
    /\ rescan = "none"
    /\ NoCall
    /\ NoOrganize
    /\ NoClient

\* organize_by_type(dry_run=dry)
OrganizeByType ==
    /\ pc = "start"
    /\ \E dry \in BOOLEAN, rev \in BOOLEAN :
          LET st == ByType(fs, dry, rev)
          IN  /\ dry_run' = dry
              /\ fs' = st.fs
              /\ moves' = st.moves
    /\ fs_before' = fs
    /\ pc' = "organized_by_type"
    /\ UNCHANGED <<min_size, size_map, duplicates, keep, denied, deleted, printed,
                   events, kept, raised, env, rescan, empty_dirs, hashed,
                   temp_files, outlook_vars>>

\* organize_by_date(dry_run=dry)
OrganizeByDate ==
    /\ pc = "start"
    /\ \E dry \in BOOLEAN, rev \in BOOLEAN :
          LET st == ByDate(fs, dry, rev)
          IN  /\ dry_run' = dry
              /\ fs' = st.fs
              /\ moves' = st.moves
    /\ fs_before' = fs
    /\ pc' = "organized_by_date"
    /\ UNCHANGED <<min_size, size_map, duplicates, keep, denied, deleted, printed,
                   events, kept, raised, env, rescan, empty_dirs, hashed,
                   temp_files, outlook_vars>>

\* remove_temp_files(dry_run=dry)
RemoveTempFiles ==
    /\ pc = "start"
    /\ \E dry \in BOOLEAN :
          /\ dry_run' = dry
          /\ temp_files' = FindTempFiles(fs, 1)
          /\ fs' = IF dry THEN fs ELSE RemoveFiles(fs, FindTempFiles(fs, 1), 1)
    /\ fs_before' = fs
    /\ pc' = "temp_removed"
    /\ UNCHANGED <<min_size, size_map, duplicates, keep, denied, deleted, printed,
                   events, kept, raised, env, rescan, empty_dirs, hashed,
                   moves, outlook_vars>>

NextOrganize ==
    \/ OrganizeByType
    \/ OrganizeByDate
    \/ RemoveTempFiles

SpecOrganize == InitOrganize /\ [][NextOrganize]_vars

(***************************************************************************)
(* OutlookClient._make_request: a request, one re-authentication and one   *)
(* retry after a 401 response, then the result or an exception.            *)
(***************************************************************************)
Unauthorized == 401
ClientError == 400
StatusCodes == {200, 204, Unauthorized, 403, 500}
Tokens == {"token1", "token2", "token3"}
Bearer(token) == <<"Bearer", token>>

\* what the caller passes as kwargs['headers']: nothing, or an Authorization
\* header of its own
CallerHeaders == {"none", <<"Bearer", "caller">>}

\* headers['Authorization'] of the first request, after headers.update
Authorization(token, caller) == IF caller = "none" THEN Bearer(token) ELSE caller

Request(auth, status) == [kind |-> "request", authorization |-> auth, status |-> status]
Authenticate(token) == [kind |-> "authenticate", token |-> token]

\* variant: every error response leads to a new authentication and a retry
NeedsReauthOnError(status) == status >= 400

\* the test that leads to re-authentication and the second request
NeedsReauth(status) == status = Unauthorized

\* the test that makes the call raise
IsFailure(status) == status >= ClientError

NoTree ==
    /\ fs = <<>> /\ fs_before = <<>>
    /\ min_size = DefaultMinSize
    /\ pc = "start"
    /\ size_map = <<>> /\ duplicates = <<>>
    /\ env = NoFaults
    /\ rescan = "none"
    /\ NoCall

\* the client after __init__: _authenticate has set the token
InitOutlook ==
    /\ NoTree
    /\ NoOrganize
    /\ access_token \in Tokens
    /\ request_pc = "idle"
    /\ response = "none"
    /\ log = <<>>

\* _make_request, lines 89-99: the first request and its response
MakeRequest ==
    /\ request_pc \in {"idle", "returned", "raised"}
    /\ \E caller \in CallerHeaders, status \in StatusCodes :
          /\ log' = <<Request(Authorization(access_token, caller), status)>>
          /\ response' = status
    /\ request_pc' = "answered"
    /\ UNCHANGED <<access_token, file_vars, organize_vars>>

\* line 103: self._authenticate() sets a token, which may be the cached one,
\* or raises "Authentication failed"
Reauthenticate ==
    /\ request_pc = "answered"
    /\ NeedsReauth(response)
    /\ \/ \E token \in Tokens :
             /\ access_token' = token
             /\ log' = Append(log, Authenticate(token))
             /\ request_pc' = "authenticated"
       \/ /\ log' = Append(log, Authenticate("failed"))
          /\ request_pc' = "raised"
          /\ UNCHANGED access_token
    /\ UNCHANGED <<response, file_vars, organize_vars>>

\* lines 104-105: the second request, with the token just set
Retry ==
    /\ request_pc = "authenticated"
    /\ \E status \in StatusCodes :
          /\ log' = Append(log, Request(Bearer(access_token), status))
          /\ response' = status
    /\ request_pc' = "retried"
    /\ UNCHANGED <<access_token, file_vars, organize_vars>>

\* lines 107-110: raise on a status of 400 or more, else return the body
Finish ==
    /\ \/ request_pc = "answered" /\ ~NeedsReauth(response)
       \/ request_pc = "retried"
    /\ request_pc' = IF IsFailure(response) THEN "raised" ELSE "returned"
    /\ UNCHANGED <<access_token, response, log, file_vars, organize_vars>>

NextOutlook ==
    \/ MakeRequest
    \/ Reauthenticate
    \/ Retry
    \/ Finish

SpecOutlook == InitOutlook /\ [][NextOutlook]_vars

(***************************************************************************)
(* remove_duplicates called on a mapping the caller built: any groups of   *)
(* paths, which may repeat a path within a group and across groups.        *)
(***************************************************************************)
RECURSIVE Sum(_, _)
Sum(s, n) == IF n = 0 THEN 0 ELSE s[n] + Sum(s, n - 1)

\* the lengths of the groups: at most MaxGroups, MaxEntries entries in all
Shapes ==
    {s \in UNION {[1..n -> 1..MaxEntries] : n \in 0..MaxGroups} :
        Sum(s, Len(s)) <= MaxEntries}

CallKey(i) == <<"md5", "k", i>>

\* the groups of shape s over the flat sequence of their entries
Split(flat, s) ==
    [i \in 1..Len(s) |->
        [key |-> CallKey(i),
         paths |-> SubSeq(flat, Sum(s, i - 1) + 1, Sum(s, i))]]

CallGroups ==
    UNION {{Split(flat, s) : flat \in [1..Sum(s, Len(s)) -> Paths]} : s \in Shapes}

InitResolve ==
    /\ fs = [p \in Paths |-> RegularFile([data |-> "x", size |-> 2000], TRUE)]
    /\ fs_before = fs
    /\ min_size = DefaultMinSize
    /\ pc = "scanned"
    /\ size_map = <<>>
    /\ duplicates \in CallGroups
    /\ env = NoFaults
    /\ rescan = "none"
    /\ NoCall
    /\ NoOrganize
    /\ NoClient

NextResolve == RemoveDuplicates

SpecResolve == InitResolve /\ [][NextResolve]_vars


(***************************************************************************)
(* Properties of find_duplicates, checked under Spec.                      *)
(***************************************************************************)
Scanned == pc \in {"scanned", "removed"}
GroupSets == {Range(duplicates[i].paths) : i \in 1..Len(duplicates)}
InSameGroup(p, q) == \E g \in GroupSets : p \in g /\ q \in g

\* what open(path, 'rb') reads: the bytes of the file the path leads to
ContentAt(p) == Target(fs, p).content

\* C1: every group of the returned mapping has at least 2 member paths
C1_GroupsHaveTwoMembers ==
    Scanned => \A i \in 1..Len(duplicates) : Len(duplicates[i].paths) >= 2

\* a scan that returned a group and dropped a digest that only one file had
C1_Witness ==
    /\ pc = "scanned"
    /\ duplicates # <<>>
    /\ \E e \in Range(HashMap(fs, size_map)) : Len(e.paths) = 1

\* C2: on a tree that is not modified during the scan, any two paths of one
\* returned group have identical content
C2_GroupMembersSameContent ==
    pc = "scanned" =>
        \A p, q \in Paths : InSameGroup(p, q) => ContentAt(p) = ContentAt(q)

\* a returned group whose size bucket also held a file of other content
C2_Witness ==
    /\ pc = "scanned"
    /\ \E e \in Range(size_map), p, q, r \in Paths :
          /\ {p, q, r} \subseteq Range(e.paths)
          /\ p # q /\ InSameGroup(p, q)
          /\ ContentAt(r) # ContentAt(p)

\* the regular files the size filter admits
Eligible ==
    {p \in Paths : fs[p].kind = "file" /\ fs[p].content.size >= min_size}
AllReadable == \A p \in Paths : fs[p].kind = "file" => fs[p].readable
ContentClasses ==
    {{q \in Eligible : fs[q].content = fs[p].content} : p \in Eligible}

\* C3: on an unmodified tree whose files are all readable, two eligible
\* regular files are in one returned group iff their contents are equal, and
\* the returned groups are exactly the content classes of 2 or more files
C3_ScanIsContentPartition ==
    (pc = "scanned" /\ AllReadable) =>
        /\ \A p, q \in Eligible :
              p # q => (InSameGroup(p, q) <=> fs[p].content = fs[q].content)
        /\ GroupSets = {c \in ContentClasses : Cardinality(c) >= 2}

\* the same statement for the trees that hold no symbolic link
NoLinks == \A p \in Paths : fs[p].kind # "link"
ScanIsContentPartitionWithoutLinks ==
    NoLinks => C3_ScanIsContentPartition

\* C4: a file whose size is below min_size is in no returned group
C4_SmallFilesNeverGrouped ==
    pc = "scanned" =>
        \A p \in Paths :
            (IsFile(fs, p) /\ StatSize(fs, p) < min_size)
                => \A g \in GroupSets : p \notin g

\* two files of equal content below min_size, beside a file that was listed
C4_Witness ==
    /\ pc = "scanned"
    /\ size_map # <<>>
    /\ \E p, q \in Paths :
          /\ p # q /\ fs[p].kind = "file" /\ fs[q].kind = "file"
          /\ fs[p].content = fs[q].content
          /\ fs[p].content.size < min_size

(***************************************************************************)
(* Properties of remove_duplicates.                                        *)
(***************************************************************************)
Returned == pc = "removed" /\ raised = "none"
RealRun == Returned /\ ~dry_run
DryRun == Returned /\ dry_run

\* the paths the call returned for group i, and those it tried to remove
ReturnedFor(i) ==
    {e.path : e \in {x \in Range(events) :
                        x.group = i /\ x.outcome \in {"deleted", "would_delete"}}}
AttemptsFor(i) ==
    SelectSeq(events, LAMBDA e : e.group = i /\ e.outcome \in {"deleted", "failed"})
Reported(what) == {e.path : e \in {x \in Range(events) : x.outcome \in what}}

\* the members of group i other than its keep path, in the group's order
CandidatesOf(i) == SelectSeq(duplicates[i].paths, LAMBDA p : p # kept[i])
AllCandidates == UNION {Range(CandidatesOf(i)) : i \in 1..Len(kept)}

\* the returned list holds the paths of the events, in their order
ReturnedListIsTheEvents ==
    pc = "removed" =>
        LET out == SelectSeq(events, LAMBDA e : e.outcome \in {"deleted", "would_delete"})
        IN  deleted = [n \in 1..Len(out) |-> out[n].path]

\* C5: under each keep policy, dry run or not, the keep path of a group is
\* not among the entries returned for that group
C5_KeepPathNotReturned ==
    Returned =>
        /\ Len(kept) = Len(duplicates)
        /\ \A i \in 1..Len(duplicates) :
              /\ kept[i] \in Range(duplicates[i].paths)
              /\ kept[i] \notin ReturnedFor(i)

\* a real run over two groups that returned a path of each
C5_Witness ==
    /\ RealRun /\ keep = "longest_path"
    /\ Len(duplicates) = 2
    /\ ReturnedFor(1) # {} /\ ReturnedFor(2) # {}

\* C6: a real run on the output of a scan issues no delete for the keep path
\* of any group, and the keep paths are as they were before the call
C6_KeepPathNotRemoved ==
    RealRun =>
        \A i \in 1..Len(duplicates) :
            /\ kept[i] \notin Reported({"deleted", "failed"})
            /\ Exists(fs_before, kept[i]) /\ fs[kept[i]] = fs_before[kept[i]]

\* a real run that removed the other two members of a scanned group
C6_Witness ==
    /\ RealRun /\ keep = "shortest_path"
    /\ Len(duplicates) = 1
    /\ Cardinality(ReturnedFor(1)) = 2
    /\ \A p \in ReturnedFor(1) : ~Exists(fs, p)

\* C7: a dry run changes no file, and returns every member that is not the
\* keep path of its group
C7_DryRunChangesNothing ==
    (pc = "removed" /\ dry_run) =>
        /\ fs = fs_before
        /\ raised = "none" =>
              \A i \in 1..Len(duplicates) : Range(CandidatesOf(i)) \subseteq Range(deleted)

\* a dry run that reported paths of two groups
C7_Witness ==
    /\ DryRun /\ keep = "last"
    /\ Len(duplicates) = 2
    /\ CandidatesOf(1) # <<>> /\ CandidatesOf(2) # <<>>

\* what a dry run of the same call returns
DryRunOfCall ==
    RemoveGroups(duplicates, 1, keep, TRUE, {}, CallState(fs_before)).deleted

\* C8: the paths a real run returns as deleted or prints as failed are the
\* paths a dry run with the same groups and policy returns
C8_DryRunSameCandidates ==
    RealRun => Range(deleted) \cup Range(printed) = Range(DryRunOfCall)

\* a real run with one removal that failed and one that succeeded
C8_Witness ==
    /\ RealRun
    /\ printed # <<>> /\ deleted # <<>>
    /\ Range(printed) \cap Range(deleted) = {}

\* C9: a failed removal does not end a real run: every group is handled and
\* os.remove is called once for each candidate of each group, in order
C9_FailureDoesNotAbort ==
    (pc = "removed" /\ ~dry_run /\ keep \in KeepArgs \ {"newest"}) =>
        /\ raised = "none"
        /\ Len(kept) = Len(duplicates)
        /\ \A i \in 1..Len(duplicates) :
              LET tried == AttemptsFor(i)
              IN  CandidatesOf(i) = [n \in 1..Len(tried) |-> tried[n].path]

\* a removal that failed, followed by a removal in a later group
C9_Witness ==
    /\ RealRun
    /\ \E a, b \in 1..Len(events) :
          /\ a < b
          /\ events[a].outcome = "failed"
          /\ events[b].group > events[a].group
          /\ events[b].outcome = "deleted"

\* C10: a real run returns exactly the paths it removed, each a member of a
\* group other than its keep path; a dry run returns exactly the candidates
C10_ReturnsDeletedPaths ==
    /\ RealRun =>
          /\ Range(deleted) = {p \in Paths : Exists(fs_before, p) /\ ~Exists(fs, p)}
          /\ Range(deleted) \subseteq AllCandidates
          /\ \A p \in AllCandidates \ Range(deleted) : p \in Range(printed)
    /\ DryRun => Range(deleted) = AllCandidates

\* a real run in which a removal was refused while its file exists
C10_Witness ==
    /\ RealRun
    /\ deleted # <<>>
    /\ \E p \in Range(printed) : Exists(fs, p) /\ p \notin Range(deleted)

(***************************************************************************)
(* remove_duplicates with a keep argument that names no policy.            *)
(***************************************************************************)
KeepPolicies == {"first", "last", "shortest_path", "longest_path"}
BadKeepCall == pc = "removed" /\ keep \notin KeepPolicies

\* C11: with an unrecognized keep policy and dry_run=False no file is
\* deleted: the error is raised before the first removal, whatever the groups
C11_BadKeepDeletesNothing ==
    (BadKeepCall /\ ~dry_run) =>
        /\ fs = fs_before
        /\ events = <<>> /\ deleted = <<>> /\ printed = <<>>
        /\ duplicates # <<>> => raised = ValueError

\* a real run over two groups of two paths that ended with ValueError
C11_Witness ==
    /\ BadKeepCall /\ ~dry_run
    /\ raised = ValueError
    /\ Len(duplicates) = 2
    /\ \A i \in 1..2 : Cardinality(Range(duplicates[i].paths)) = 2

\* C12: with an unrecognized keep policy the call fails with an error for
\* every groups input, the empty mapping included
C12_BadKeepAlwaysRaises ==
    BadKeepCall => raised = ValueError

(***************************************************************************)
(* find_duplicates under faults, checked under SpecScan.                   *)
(***************************************************************************)
\* the paths whose stat() or open() fails, or that rglob cannot reach
Failing ==
    {p \in DOMAIN fs :
        \/ fs[p].kind = "file" /\ ~fs[p].readable
        \/ p \in env.flaky
        \/ env.subdir # "ok" /\ InSubdir(p)}

\* the tree without the failing paths
Healthy == [p \in DOMAIN fs |-> IF p \in Failing THEN Absent ELSE fs[p]]

\* C13: a failure to stat or hash a file, or an unreadable subdirectory,
\* never aborts the scan: it ends normally, no failing path is in a group,
\* and the groups are those of the remaining files
C13_FileErrorsNeverAbort ==
    env.root = "dir" =>
        /\ pc # "raised"
        /\ pc = "scanned" =>
              /\ Members(duplicates) \cap Failing = {}
              /\ duplicates = OnlyDuplicates(HashMap(Healthy, SizeMap(Healthy, min_size)))

\* the same statement without the subdirectory that can be listed but not
\* searched: the errors the two try blocks and rglob catch
CaughtErrorsNeverAbort ==
    env.subdir # "unsearchable" => C13_FileErrorsNeverAbort

\* C14: when the root does not exist or cannot be traversed, the scan ends
\* with an error and returns no mapping
C14_BadRootRaises ==
    (env.root # "dir" /\ pc # "start") => pc = "raised"

(***************************************************************************)
(* Symbolic links, checked under Spec.                                     *)
(***************************************************************************)
\* C15: a path that is a symbolic link is in no size bucket and in no
\* returned group
C15_SymlinksSkipped ==
    \A p \in Paths :
        fs[p].kind = "link" =>
            p \notin Members(size_map) /\ p \notin Members(duplicates)

RescanAfterRemoval ==
    (pc = "rescanned" /\ keep # "none" /\ ~dry_run) =>
        Members(rescan) \cap Reported({"deleted"}) = {}

(***************************************************************************)
(* The keep path, checked under SpecResolve.                               *)
(***************************************************************************)
\* position j of paths holds a path of least (greatest) length and no
\* earlier position holds a path of that length
IsFirstOfLeastLength(paths, j) ==
    /\ \A m \in 1..Len(paths) : Len(paths[j]) <= Len(paths[m])
    /\ \A m \in 1..(j - 1) : Len(paths[m]) # Len(paths[j])
IsFirstOfGreatestLength(paths, j) ==
    /\ \A m \in 1..Len(paths) : Len(paths[j]) >= Len(paths[m])
    /\ \A m \in 1..(j - 1) : Len(paths[m]) # Len(paths[j])

\* C17: 'first' keeps the first path of the group, 'last' the last,
\* 'shortest_path' the first path of minimum length and 'longest_path' the
\* first path of maximum length in the group's sequence
C17_KeepPathSelection ==
    Returned =>
        /\ Len(kept) = Len(duplicates)
        /\ \A i \in 1..Len(kept) :
              LET paths == duplicates[i].paths
              IN  /\ keep = "first" => kept[i] = paths[1]
                  /\ keep = "last" => kept[i] = paths[Len(paths)]
                  /\ keep = "shortest_path" =>
                        \E j \in 1..Len(paths) :
                            kept[i] = paths[j] /\ IsFirstOfLeastLength(paths, j)
                  /\ keep = "longest_path" =>
                        \E j \in 1..Len(paths) :
                            kept[i] = paths[j] /\ IsFirstOfGreatestLength(paths, j)
C17_Witness ==
    /\ Returned
    /\ keep = "shortest_path"
    /\ \E i \in 1..Len(kept) :
          LET paths == duplicates[i].paths
          IN  \E j, m \in 1..Len(paths) :
                  /\ j < m
                  /\ paths[j] # paths[m]
                  /\ Len(paths[j]) = Len(paths[m])
                  /\ IsFirstOfLeastLength(paths, j)
                  /\ kept[i] = paths[j]

(***************************************************************************)
(* The candidates of a group of distinct paths, checked under SpecResolve. *)
(***************************************************************************)
PairwiseDistinct(paths) == Cardinality(Range(paths)) = Len(paths)

\* the paths the call appended to its list while it handled group i
ReturnedSeqFor(i) ==
    LET out == SelectSeq(events, LAMBDA e :
                   e.group = i /\ e.outcome \in {"deleted", "would_delete"})
    IN  [n \in 1..Len(out) |-> out[n].path]

\* C18: for a group of n pairwise distinct paths and a valid keep policy, a
\* dry run keeps one path of the group and returns the other n-1 paths,
\* each once, in the group's order
C18_DryRunReturnsTheOthers ==
    DryRun =>
        \A i \in 1..Len(duplicates) :
            LET paths == duplicates[i].paths
                out == ReturnedSeqFor(i)
            IN  PairwiseDistinct(paths) =>
                    /\ kept[i] \in Range(paths)
                    /\ Len(out) = Len(paths) - 1
                    /\ PairwiseDistinct(out)
                    /\ Range(out) = Range(paths) \ {kept[i]}
                    /\ \A a, b \in 1..Len(out) :
                          a < b =>
                            \E x, y \in 1..Len(paths) :
                                x < y /\ paths[x] = out[a] /\ paths[y] = out[b]
C18_Witness ==
    /\ DryRun
    /\ keep = "last"
    /\ \E i \in 1..Len(duplicates) :
          /\ Len(duplicates[i].paths) = 3
          /\ PairwiseDistinct(duplicates[i].paths)
          /\ Len(ReturnedSeqFor(i)) = 2

(***************************************************************************)
(* Sizes within a group, checked under SpecRace.                           *)
(***************************************************************************)
\* the sizes under which the first pass listed path p
ListedSizes(p) ==
    {size_map[i].key : i \in {n \in 1..Len(size_map) : p \in Range(size_map[n].paths)}}
GroupsOfOneListedSize ==
    \A i \in 1..Len(duplicates) :
        \A p, q \in Range(duplicates[i].paths) : ListedSizes(p) = ListedSizes(q)

\* C19 as stated: no returned group holds two files that the size-listing
\* pass measured with different sizes
C19_GroupsOfOneListedSize ==
    pc = "scanned" => GroupsOfOneListedSize

\* C19: when no file was rewritten between the size-listing pass and the
\* hashing pass, no returned group holds two files that the size-listing
\* pass measured with different sizes
C19_GroupsOfOneListedSizeIfUnmodified ==
    (pc = "scanned" /\ fs = fs_before) => GroupsOfOneListedSize
C19_Witness ==
    /\ pc = "scanned"
    /\ fs = fs_before
    /\ Len(duplicates) = 2
    /\ \E i, j \in 1..Len(size_map) :
          /\ size_map[i].key # size_map[j].key
          /\ BucketIsHashed(size_map[i].paths)
          /\ BucketIsHashed(size_map[j].paths)

(***************************************************************************)
(* remove_empty_dirs, checked under SpecDirs.                              *)
(***************************************************************************)
DirsRemoved == pc = "dirs_removed" /\ ~dry_run /\ denied = {}

\* C20: after remove_empty_dirs(dry_run=False) in which every rmdir
\* succeeds, no directory under the root is empty
C20_NoEmptyDirRemains ==
    DirsRemoved =>
        \A d \in Nodes : fs[d].kind = "dir" => Iterdir(fs, d) # {}

\* the call removes the directories that were empty when it was made
EmptyDirsOfCallRemoved ==
    DirsRemoved =>
        \A d \in Nodes :
            (fs_before[d].kind = "dir" /\ Iterdir(fs_before, d) = {}) => ~Exists(fs, d)

TraversalIndex(p) == CHOOSE n \in 1..Len(Rglob(fs_before)) : Rglob(fs_before)[n] = p

\* C23: the paths of every returned group are in the order in which rglob
\* enumerated them, so 'first' keeps the member enumerated first and 'last'
\* the member enumerated last
C23_GroupOrderIsTraversalOrder ==
    Scanned =>
        /\ \A i \in 1..Len(duplicates) :
              \A a, b \in 1..Len(duplicates[i].paths) :
                  a < b => TraversalIndex(duplicates[i].paths[a])
                             < TraversalIndex(duplicates[i].paths[b])
        /\ Returned =>
              \A i \in 1..Len(kept) :
                  \A p \in Range(duplicates[i].paths) :
                      /\ keep = "first" => TraversalIndex(kept[i]) <= TraversalIndex(p)
                      /\ keep = "last" => TraversalIndex(kept[i]) >= TraversalIndex(p)
C23_Witness ==
    /\ Returned
    /\ keep = "last"
    /\ Len(duplicates) = 1
    /\ Len(duplicates[1].paths) = 3
    /\ kept[1] = Rglob(fs_before)[3]

(***************************************************************************)
(* The groups of one scan, checked under SpecRace.                         *)
(***************************************************************************)
\* C26: every path is in at most one returned group and at most once in it,
\* so under no keep policy the keep path of a group is a member of another
C26_GroupsDisjoint ==
    pc = "scanned" =>
        /\ \A i, j \in 1..Len(duplicates) :
              \A a \in 1..Len(duplicates[i].paths), b \in 1..Len(duplicates[j].paths) :
                  duplicates[i].paths[a] = duplicates[j].paths[b] => (i = j /\ a = b)
        /\ \A k \in KeepPolicies :
              \A i, j \in 1..Len(duplicates) :
                  i # j => ToKeep(duplicates[i].paths, k) \notin Range(duplicates[j].paths)
C26_Witness ==
    /\ pc = "scanned"
    /\ Len(duplicates) = 2
    /\ Cardinality(Members(duplicates)) = 4

(***************************************************************************)
(* Scan, then a real run, checked under Spec.                              *)
(***************************************************************************)
\* the contents of the regular files of a tree
FileContents(f) == {f[p].content : p \in {q \in DOMAIN f : f[q].kind = "file"}}

\* remove_duplicates was called with a valid policy and dry_run=False
ValidRealCall == keep \in KeepPolicies /\ ~dry_run /\ raised = "none"
ValidRealRun == pc = "removed" /\ ValidRealCall

\* C27: after a scan and a real run with a valid keep policy, every content
\* that a file had before the call is still the content of a file
C27_NoContentLost ==
    ValidRealRun => FileContents(fs_before) \subseteq FileContents(fs)

\* the same statement for trees without a symbolic link
NoLinksBefore == \A p \in Paths : fs_before[p].kind # "link"
NoContentLostWithoutLinks ==
    NoLinksBefore => C27_NoContentLost

\* C28: after a scan and a real run in which every deletion succeeded, a
\* second scan with the same min_size returns an empty mapping
C28_SecondScanFindsNothing ==
    (pc = "rescanned" /\ ValidRealCall /\ printed = <<>>) => rescan = <<>>
C28_Witness ==
    /\ pc = "rescanned"
    /\ ValidRealCall
    /\ printed = <<>>
    /\ Len(deleted) = 2
    /\ rescan = <<>>

(***************************************************************************)
(* What remove_duplicates leaves alone, checked under SpecResolve.         *)
(***************************************************************************)
\* path p exists after the call exactly when it existed before the call
Untouched(p) == Exists(fs, p) <=> Exists(fs_before, p)

FrameOfCall ==
    \A p \in Paths :
        (p \notin Members(duplicates) \/ p \in Range(kept)) => Untouched(p)

InputGroupsDisjoint ==
    \A i, j \in 1..Len(duplicates) :
        i # j => Range(duplicates[i].paths) \cap Range(duplicates[j].paths) = {}

RemovedAreNonKeepMembers ==
    pc = "removed" =>
        \A p \in Paths :
            ~Untouched(p) => \E i \in 1..Len(kept) : p \in Range(CandidatesOf(i))

(***************************************************************************)
(* A scan of a tree rewritten between the passes, checked under SpecRace.  *)
(***************************************************************************)
\* C25: digests are gathered in one map shared by all size buckets: two
\* hashed paths whose files have the same digest when they are hashed are in
\* one returned group, whatever buckets listed them and whatever their size
\* is by then; after a rewrite a group can so hold files of different buckets
C25_GroupsFollowDigestsAtHashTime ==
    pc = "scanned" =>
        \A p, q \in Range(hashed) :
            (p # q /\ HashFile(fs, p) # OSError) =>
                (InSameGroup(p, q) <=> HashFile(fs, p) = HashFile(fs, q))
C25_Witness ==
    /\ pc = "scanned"
    /\ Rewritten # {}
    /\ \E i \in 1..Len(duplicates) :
          \E p, q \in Range(duplicates[i].paths) : ListedSizes(p) # ListedSizes(q)

\* a returned group holds a file that is smaller than min_size when hashed
GroupHoldsFileBelowMinSize ==
    /\ pc = "scanned"
    /\ \E p \in Members(duplicates) : StatSize(fs, p) < min_size

(***************************************************************************)
(* remove_duplicates on a stale mapping, checked under SpecStale.          *)
(***************************************************************************)
\* the paths the call tried to remove while it handled group i, in order
AttemptedSeqFor(i) == [n \in 1..Len(AttemptsFor(i)) |-> AttemptsFor(i)[n].path]

\* C24: the paths a real run tries to remove are given by the groups and
\* the keep policy alone, and each of them is removed when os.remove
\* succeeds, whatever its content is at the time of the call
C24_ResolverNeverReverifies ==
    RealRun =>
        /\ Len(kept) = Len(duplicates)
        /\ \A i \in 1..Len(kept) :
              /\ kept[i] = ToKeep(duplicates[i].paths, keep)
              /\ AttemptedSeqFor(i) = CandidatesOf(i)
              /\ \A p \in Range(CandidatesOf(i)) :
                    (Exists(fs_before, p) /\ p \notin denied) => ~Exists(fs, p)
C24_Witness ==
    /\ RealRun
    /\ \E i \in 1..Len(kept) :
          \E p \in Range(CandidatesOf(i)) :
              /\ Exists(fs_before, p)
              /\ Exists(fs_before, kept[i])
              /\ fs_before[p].content # fs_before[kept[i]].content
              /\ ~Exists(fs, p)

(***************************************************************************)
(* OutlookClient._make_request, checked under SpecOutlook.                 *)
(***************************************************************************)
RequestsSent == SelectSeq(log, LAMBDA e : e.kind = "request")
AuthCalls == SelectSeq(log, LAMBDA e : e.kind = "authenticate")
CallEnded == request_pc \in {"returned", "raised"}

\* C30: one call sends at most two requests and authenticates at most once;
\* a second request follows a 401 answer to the first and an authentication
\* that set the token it carries; a call whose last response has a status of
\* 400 or more, a second 401 included, raises and sends nothing more
C30_RetriesAtMostOnce ==
    /\ Len(RequestsSent) <= 2
    /\ Len(AuthCalls) <= 1
    /\ Len(RequestsSent) = 2 =>
          /\ log[1].kind = "request" /\ log[1].status = Unauthorized
          /\ log[2].kind = "authenticate" /\ log[2].token \in Tokens
          /\ log[3].kind = "request"
          /\ log[3].authorization = Bearer(log[2].token)
          /\ access_token = log[2].token
    /\ AuthCalls # <<>> => log[1].kind = "request" /\ log[1].status = Unauthorized
    /\ (CallEnded /\ response >= 400) => request_pc = "raised"
    /\ request_pc = "returned" => response < 400
    /\ request_pc = "retried" => ~ENABLED Retry /\ ~ENABLED Reauthenticate
C30_Witness ==
    /\ request_pc = "raised"
    /\ Len(RequestsSent) = 2
    /\ RequestsSent[2].status = Unauthorized
    /\ Len(AuthCalls) = 1

(***************************************************************************)
(* Dry runs of the organize and cleanup calls, checked under SpecOrganize  *)
(* and, for remove_empty_dirs, under SpecDirs.                             *)
(***************************************************************************)
Organized == pc \in {"organized_by_type", "organized_by_date", "temp_removed"}

\* a dict as the set of its items: dicts are equal when their items are
Items(m) == {<<m[i].source, m[i].dest>> : i \in 1..Len(m)}

DryRunsChangeNothing == (Organized /\ dry_run) => fs = fs_before

\* what a dry run of the call on the tree as it was reports
ByTypeReportIsTheDryRuns ==
    pc = "organized_by_type" => Items(moves) = Items(ByType(fs_before, TRUE, FALSE).moves)
ByDateReportIsTheDryRuns ==
    pc = "organized_by_date" => Items(moves) = Items(ByDate(fs_before, TRUE, FALSE).moves)
TempReportIsTheDryRuns ==
    pc = "temp_removed" => temp_files = FindTempFiles(fs_before, 1)

\* C21: with dry_run=True the organize and cleanup calls change nothing,
\* and the report of a dry run is the report of a real run on the same tree
C21_DryRunOnlyReports ==
    /\ DryRunsChangeNothing
    /\ ByTypeReportIsTheDryRuns
    /\ ByDateReportIsTheDryRuns
    /\ TempReportIsTheDryRuns

\* remove_empty_dirs: a dry run changes nothing, and dry and real runs
\* return the directories that were empty when the call was made
DryRunOfRemoveEmptyDirs ==
    pc = "dirs_removed" =>
        /\ dry_run => fs = fs_before
        /\ empty_dirs = FindEmptyDirs(fs_before)
=============================================================================
